---- MODULE Spec2Model ----
(***************************************************************************)
(* Model of mini_redis' Storage class (src/src/storage.cpp): the mutex-    *)
(* guarded unordered_map of ValueEntry, the background cleaner thread and  *)
(* the JSON persistence.  Time is steady_clock discretised into ticks.     *)
(***************************************************************************)
EXTENDS Integers, FiniteSets, Sequences, TLC

\* ---------------------------------------------------------------- bounds
Keys == {"k1", "k2"}
\* Storage::Value is std::variant<int, double, std::string, bool>; a value is
\* its alternative and a payload identifier.
Values == {[tag |-> "int", v |-> 1], [tag |-> "string", v |-> 2]}
TTLs == {-1, 0, 1}
TicksPerSec == 2
MaxTime == 3
Clients == {"c1"}
FileClients == {"c1", "c2"}
FileKeys == {"k1"}
Cleaner == "cleaner"
\* the client connections, and the descriptors accept() hands out (0..2 are
\* the standard streams, 3 is server_sock_)
Conns == {"a", "b"}
Fds == {4, 5}

\* std::nullopt
Absent == [tag |-> "nullopt", v |-> 0]
\* the result of a void method
Void == [tag |-> "void", v |-> 0]
NoFile == [exists |-> FALSE]
Null == [type |-> "null", v |-> 0]
NoTTL == 99
NoExp == 99
None == [by |-> "none"]
NoCall == [op |-> "none", key |-> "", ret |-> Void]

VARIABLES
    map_,    \* Storage::map_ : key -> ValueEntry (a partial function)
    mtx_,    \* Storage::mtx_ : TRUE while some lock_guard holds it
    pc,      \* per thread: Idle, or the method it is executing under the lock
    now,     \* std::chrono::steady_clock::now(), in ticks
    wake,    \* the tick at which the cleaner's sleep_for(1s) ends
    stop_,   \* Storage::stop_
    disk,    \* the JSON file: NoFile or the object written by saveToFile
    last,    \* the most recently completed method call and what it returned
    hist,    \* per key: the last set/expire call that wrote it (history)
    done,    \* test_concurrency: loop iterations each thread has completed
    life,    \* the Storage object: "alive", "joining" (in ~Storage), "destroyed"
    srv      \* the server process: its sessions and the autosave files

vars == <<map_, mtx_, pc, now, wake, stop_, disk, last, hist, done, life, srv>>

Idle == [op |-> "idle"]
Exited == [op |-> "exited"]
Call(op, k, v, ttl) == [op |-> op, key |-> k, value |-> v, ttl |-> ttl]

\* ------------------------------------------------------- pure helpers
\* ValueEntry{value, expiry, hasExpiry}
Entry(v, exp, has) == [value |-> v, expiry |-> exp, hasExpiry |-> has]

\* a variant of Expired: the comparison is strict, so an entry is still served
\* at the very instant of its expiry
ExpiredStrict(e, t) == e.hasExpiry /\ t > e.expiry

\* it->second.hasExpiry && steady_clock::now() >= it->second.expiry
Expired(e, t) == e.hasExpiry /\ t >= e.expiry

\* a variant of Put: map_.insert, which keeps the entry of a key already there
PutKeepOld(m, k, e) ==
    [x \in (DOMAIN m) \cup {k} |-> IF x \in DOMAIN m THEN m[x] ELSE e]

\* map_[key] = entry
Put(m, k, e) == [x \in (DOMAIN m) \cup {k} |-> IF x = k THEN e ELSE m[x]]

\* map_.erase(key)
Erase(m, k) == [x \in (DOMAIN m) \ {k} |-> m[x]]

EmptyMap == [x \in {} |-> Absent]

\* the vocabulary of the claims: an entry is alive when it has no expiry or
\* the time is strictly before its expiry, and logically dead otherwise
Alive(m, k, t) == k \in DOMAIN m /\ (~m[k].hasExpiry \/ t < m[k].expiry)
LogicallyDead(m, k, t) == k \in DOMAIN m /\ m[k].hasExpiry /\ t >= m[k].expiry

\* a variant of Deadline: the TTL is added as ticks of the clock, not seconds
DeadlineTicks(t, ttl) == t + ttl

\* now + std::chrono::seconds(ttl_secs)
Deadline(t, ttl) == t + ttl * TicksPerSec

\* duration_cast<seconds>: truncation toward zero
TruncSeconds(d) == IF d >= 0 THEN d \div TicksPerSec ELSE -((-d) \div TicksPerSec)

\* a variant of Sweep: every entry that carries an expiry is erased, whether
\* or not the expiry has passed
SweepAllTtl(m, t) == [x \in {k \in DOMAIN m : ~m[k].hasExpiry} |-> m[x]]

\* a variant of Sweep: the loop advances past expired entries without erasing
SweepNothing(m, t) == m

\* the loop of the cleaner: erase every entry that is expired at t
Sweep(m, t) == [x \in {k \in DOMAIN m : ~Expired(m[k], t)} |-> m[x]]

\* a variant of Snapshot: the loop copies every entry, expired or not
SnapshotAll(m, t) == [x \in DOMAIN m |-> m[x].value]

\* the loop of dump(): the values of the entries not expired at t
Snapshot(m, t) == [x \in {k \in DOMAIN m : ~Expired(m[k], t)} |-> m[x].value]

\* nlohmann::json's type of a variant alternative (valueJson["value"] = arg)
ToJson(v) ==
    [type |-> CASE v.tag = "int" -> "number_integer"
                [] v.tag = "double" -> "number_float"
                [] v.tag = "string" -> "string"
                [] v.tag = "bool" -> "boolean",
     v |-> v.v]

\* the is_boolean / is_number_integer / is_number_float / is_string chain of
\* loadFromFile; any other type leaves the default-constructed variant, int 0
FromJson(j) ==
    IF j.type = "boolean" THEN [tag |-> "bool", v |-> j.v]
    ELSE IF j.type = "number_integer" THEN [tag |-> "int", v |-> j.v]
    ELSE IF j.type = "number_float" THEN [tag |-> "double", v |-> j.v]
    ELSE IF j.type = "string" THEN [tag |-> "string", v |-> j.v]
    ELSE [tag |-> "int", v |-> 0]

\* valueJson["ttl_remaining"] = remaining: a json integer
JsonInt(n) == [type |-> "number_integer", v |-> n]

\* a variant of SaveJson: every entry is written, and a TTL entry carries its
\* absolute expiry instant
SaveJsonAbsolute(m, t) ==
    [x \in DOMAIN m |->
        [value |-> ToJson(m[x].value),
         hasExpiry |-> m[x].hasExpiry,
         ttl_remaining |-> IF m[x].hasExpiry
                           THEN JsonInt(m[x].expiry)
                           ELSE Null]]

\* the json object saveToFile builds: one record per entry not expired at t
SaveJson(m, t) ==
    [x \in {k \in DOMAIN m : ~Expired(m[k], t)} |->
        [value |-> ToJson(m[x].value),
         hasExpiry |-> m[x].hasExpiry,
         ttl_remaining |-> IF m[x].hasExpiry
                           THEN JsonInt(TruncSeconds(m[x].expiry - t))
                           ELSE Null]]

\* the ValueEntry loadFromFile builds from one record, with `now` = t
LoadEntry(r, t) ==
    Entry(FromJson(r.value),
          IF r.hasExpiry /\ r.ttl_remaining.type # "null"
              THEN Deadline(t, r.ttl_remaining.v) ELSE 0,
          r.hasExpiry)

\* int remaining = entryJson["ttl_remaining"]: the conversion of a json value
\* that is not a number throws json::type_error
RecordThrows(r) ==
    r.hasExpiry /\ r.ttl_remaining.type \notin {"null", "number_integer"}

\* nlohmann::json iterates an object in key order
KeyOrder == <<"k1", "k2">>
MinKey(S) == KeyOrder[CHOOSE i \in 1..Len(KeyOrder) :
                 /\ KeyOrder[i] \in S
                 /\ \A j \in 1..(i - 1) : KeyOrder[j] \notin S]

\* ------------------------------------------------------- server state
\* a connection that has not been accepted yet
NoSession ==
    [state |-> "none", fd |-> 0, open |-> FALSE, store |-> EmptyMap,
     reaper |-> "none", saved |-> FALSE, seen |-> Absent, cmd |-> "none",
     resp |-> "none", loaded |-> FALSE]

\* Server::start: no client thread yet, no data/client_<fd>/autosave.json
SrvInit ==
    [up |-> TRUE, fault |-> [why |-> "none", by |-> ""],
     sess |-> [c \in Conns |-> NoSession],
     file |-> [f \in Fds |-> NoFile]]

\* ---------------------------------------------------------------- Init
Init ==
    /\ map_ = EmptyMap
    /\ mtx_ = FALSE
    /\ pc = [t \in Clients \cup {Cleaner} |-> Idle]
    /\ now = 0
    /\ wake = 0
    /\ stop_ = FALSE
    /\ disk = NoFile
    /\ last = NoCall
    /\ hist = [k \in Keys |-> None]
    /\ done = [t \in Clients |-> 0]
    /\ life = "alive"
    /\ srv = SrvInit

\* --------------------------------------------------------- the mutex
InCS(t) == pc[t].op \notin {"idle", "exited", "checked"}

\* another thread is inside a method of the same Storage: an unsynchronised
\* access to map_, which is a data race
Racing(t) == \E u \in (DOMAIN pc) \ {t} : InCS(u)

\* a variant of CanLock: the method forgets its lock_guard
CanLockAlways == TRUE

\* std::lock_guard<std::mutex> lock(mtx_): blocks while the mutex is held
CanLock == mtx_ = FALSE

\* what a write to map_ can leave behind: the new map, or, when it races
\* another thread's access, also the old one (the write is lost)
Written(t, m) == IF Racing(t) THEN {m, map_} ELSE {m}

\* leave the method: the lock_guard's destructor releases the mutex
Return(t, r) ==
    /\ pc' = [pc EXCEPT ![t] = Idle]
    /\ mtx_' = FALSE
    /\ last' = [op |-> pc[t].op, key |-> pc[t].key, ret |-> r]

\* a client thread enters a method of the Storage
Lock(t, c) ==
    /\ pc[t] = Idle
    /\ ~stop_
    /\ CanLock
    /\ mtx_' = TRUE
    /\ pc' = [pc EXCEPT ![t] = c]
    /\ last' = NoCall
    /\ UNCHANGED <<map_, now, wake, stop_, disk, hist, done, life, srv>>

\* history: key k was written by set(k, v) or set(k, v, ttl) at the current
\* time, so that it expires, if ever, at now + ttl seconds
HistSet(k, v, ttl) ==
    [by |-> "set", value |-> v,
     exp |-> IF ttl = NoTTL THEN NoExp ELSE now + ttl * TicksPerSec]

\* history: key k was written by loadFromFile with entry e
HistLoad(e) ==
    [by |-> "load", value |-> e.value,
     exp |-> IF e.hasExpiry THEN e.expiry ELSE NoExp]

\* ------------------------------------------------------------ methods
\* a variant of Set: only the value of an entry already there is replaced
\* (map_[key].value = value), so an earlier expiry stays attached
SetValueOnly(t) ==
    /\ pc[t].op = "set"
    /\ map_' \in Written(t, Put(map_, pc[t].key,
                   IF pc[t].key \in DOMAIN map_
                   THEN [map_[pc[t].key] EXCEPT !.value = pc[t].value]
                   ELSE Entry(pc[t].value, 0, FALSE)))
    /\ hist' = [hist EXCEPT ![pc[t].key] =
                   HistSet(pc[t].key, pc[t].value, NoTTL)]
    /\ Return(t, Void)
    /\ UNCHANGED <<now, wake, stop_, disk, done, life, srv>>

\* Storage::set(key, value)
Set(t) ==
    /\ pc[t].op = "set"
    /\ map_' \in Written(t, Put(map_, pc[t].key, Entry(pc[t].value, 0, FALSE)))
    /\ hist' = [hist EXCEPT ![pc[t].key] =
                   HistSet(pc[t].key, pc[t].value, NoTTL)]
    /\ Return(t, Void)
    /\ UNCHANGED <<now, wake, stop_, disk, done, life, srv>>

\* Storage::set(key, value, ttl_secs)
SetTtl(t) ==
    /\ pc[t].op = "set_ttl"
    /\ map_' \in Written(t, Put(map_, pc[t].key,
                   Entry(pc[t].value, Deadline(now, pc[t].ttl), TRUE)))
    /\ hist' = [hist EXCEPT ![pc[t].key] =
                   HistSet(pc[t].key, pc[t].value, pc[t].ttl)]
    /\ Return(t, Void)
    /\ UNCHANGED <<now, wake, stop_, disk, done, life, srv>>

\* what Storage::get returns
GetRet(m, k, t) ==
    IF k \notin DOMAIN m THEN Absent
    ELSE IF Expired(m[k], t) THEN Absent
    ELSE m[k].value

\* what Storage::exists returns
ExistsRet(m, k, t) ==
    IF k \notin DOMAIN m THEN FALSE
    ELSE IF Expired(m[k], t) THEN FALSE
    ELSE TRUE

\* a variant of LazyErase: the expired entry is left for the cleaner
LazyEraseNever(m, k, t) == m

\* the map after Storage::get or Storage::exists: an expired entry is erased
LazyErase(m, k, t) ==
    IF k \in DOMAIN m /\ Expired(m[k], t) THEN Erase(m, k) ELSE m

\* Storage::get
Get(t) ==
    /\ pc[t].op = "get"
    /\ map_' \in Written(t, LazyErase(map_, pc[t].key, now))
    /\ Return(t, GetRet(map_, pc[t].key, now))
    /\ UNCHANGED <<now, wake, stop_, disk, hist, done, life, srv>>

\* Storage::exists
Exists(t) ==
    /\ pc[t].op = "exists"
    /\ map_' \in Written(t, LazyErase(map_, pc[t].key, now))
    /\ Return(t, ExistsRet(map_, pc[t].key, now))
    /\ UNCHANGED <<now, wake, stop_, disk, hist, done, life, srv>>

\* a variant of DelRet: an entry carrying an expiry is not reported as removed
DelRetNoTtl(m, k) == k \in DOMAIN m /\ ~m[k].hasExpiry

\* what Storage::del returns: map_.erase(key) > 0
DelRet(m, k) == k \in DOMAIN m

\* a variant of Del: an expired entry is treated as not there and left alone
DelAliveOnly(t) ==
    /\ pc[t].op = "del"
    /\ map_' \in Written(t, IF ExistsRet(map_, pc[t].key, now)
                             THEN Erase(map_, pc[t].key) ELSE map_)
    /\ hist' = [hist EXCEPT ![pc[t].key] = None]
    /\ Return(t, ExistsRet(map_, pc[t].key, now))
    /\ UNCHANGED <<now, wake, stop_, disk, done, life, srv>>

\* Storage::del
Del(t) ==
    /\ pc[t].op = "del"
    /\ map_' \in Written(t, Erase(map_, pc[t].key))
    /\ hist' = [hist EXCEPT ![pc[t].key] = None]
    /\ Return(t, DelRet(map_, pc[t].key))
    /\ UNCHANGED <<now, wake, stop_, disk, done, life, srv>>

\* what Storage::size returns: map_.size()
SizeRet(m) == Cardinality(DOMAIN m)

\* Storage::size
Size(t) ==
    /\ pc[t].op = "size"
    /\ Return(t, SizeRet(map_))
    /\ UNCHANGED <<map_, now, wake, stop_, disk, hist, done, life, srv>>

\* what Storage::expire returns
ExpireRet(m, k, t) == k \in DOMAIN m

\* a variant of ExpireMap: an expiry already attached is not replaced
ExpireMapAttachOnly(m, k, t, ttl) ==
    IF k \notin DOMAIN m \/ m[k].hasExpiry THEN m
    ELSE [m EXCEPT ![k] = Entry(m[k].value, t + ttl * TicksPerSec, TRUE)]

\* a variant of ExpireMap: map_[key], which inserts a default entry for a key
\* that is not there
ExpireMapInsert(m, k, t, ttl) ==
    [x \in (DOMAIN m) \cup {k} |->
        IF x = k
        THEN Entry(IF k \in DOMAIN m THEN m[k].value ELSE [tag |-> "int", v |-> 0],
                   t + ttl * TicksPerSec, TRUE)
        ELSE m[x]]

\* the map after Storage::expire
ExpireMap(m, k, t, ttl) ==
    IF k \notin DOMAIN m THEN m
    ELSE [m EXCEPT ![k] = Entry(m[k].value, Deadline(t, ttl), TRUE)]

\* Storage::expire
Expire(t) ==
    /\ pc[t].op = "expire"
    /\ map_' \in Written(t, ExpireMap(map_, pc[t].key, now, pc[t].ttl))
    /\ hist' = [hist EXCEPT ![pc[t].key] =
                   IF pc[t].key \in DOMAIN map_ /\ ~Expired(map_[pc[t].key], now)
                   THEN [by |-> "expire", value |-> map_[pc[t].key].value,
                         exp |-> now + pc[t].ttl * TicksPerSec]
                   ELSE IF pc[t].key \in DOMAIN map_ THEN None ELSE @]
    /\ Return(t, ExpireRet(map_, pc[t].key, now))
    /\ UNCHANGED <<now, wake, stop_, disk, done, life, srv>>

\* Storage::dump
Dump(t) ==
    /\ pc[t].op = "dump"
    /\ Return(t, Snapshot(map_, now))
    /\ UNCHANGED <<map_, now, wake, stop_, disk, hist, done, life, srv>>

\* Storage::saveToFile: the ofstream may fail to open
SaveToFile(t) ==
    /\ pc[t].op = "save"
    /\ \E opened \in BOOLEAN :
          /\ disk' = IF opened
                     THEN [exists |-> TRUE, valid |-> TRUE,
                           js |-> SaveJson(map_, now)]
                     ELSE disk
          /\ Return(t, opened)
    /\ UNCHANGED <<map_, now, wake, stop_, hist, done, life, srv>>

\* a variant of Cleared: the records are merged into the prior content
ClearedKeep(m) == m

\* map_.clear()
Cleared(m) == EmptyMap

\* an exception leaves loadFromFile: the lock_guard's destructor releases the
\* mutex during unwinding, and the caller gets no return value
Throw(t) ==
    /\ pc' = [pc EXCEPT ![t] = Idle]
    /\ mtx_' = FALSE
    /\ last' = [op |-> "load_threw", key |-> "", ret |-> Void]

\* Storage::loadFromFile up to map_.clear(): the ifstream does not open when
\* the file is missing; file >> js throws json::parse_error on a text that is
\* not JSON; otherwise the map is cleared and `now` taken (prior keeps the
\* content that clear() discarded)
LoadOpen(t) ==
    /\ pc[t].op = "load"
    /\ IF ~disk.exists
       THEN /\ Return(t, FALSE)
            /\ UNCHANGED <<map_, hist>>
       ELSE IF ~disk.valid
       THEN /\ Throw(t)
            /\ UNCHANGED <<map_, hist>>
       ELSE /\ map_' \in Written(t, Cleared(map_))
            /\ hist' = [k \in Keys |-> None]
            /\ pc' = [pc EXCEPT ![t] = [op |-> "load_fill", key |-> "",
                                        js |-> disk.js, todo |-> DOMAIN disk.js,
                                        tnow |-> now, prior |-> map_]]
            /\ UNCHANGED <<mtx_, last>>
    /\ UNCHANGED <<now, wake, stop_, disk, done, life, srv>>

\* one iteration of loadFromFile's loop over the records
LoadRecord(t) ==
    /\ pc[t].op = "load_fill"
    /\ pc[t].todo # {}
    /\ LET k == MinKey(pc[t].todo)
       IN IF RecordThrows(pc[t].js[k])
          THEN /\ Throw(t)
               /\ UNCHANGED <<map_, hist>>
          ELSE /\ map_' \in Written(t, Put(map_, k, LoadEntry(pc[t].js[k], pc[t].tnow)))
               /\ hist' = [hist EXCEPT ![k] = HistLoad(LoadEntry(pc[t].js[k], pc[t].tnow))]
               /\ pc' = [pc EXCEPT ![t].todo = @ \ {k}]
               /\ UNCHANGED <<mtx_, last>>
    /\ UNCHANGED <<now, wake, stop_, disk, done, life, srv>>

\* loadFromFile's return true
LoadReturn(t) ==
    /\ pc[t].op = "load_fill"
    /\ pc[t].todo = {}
    /\ pc' = [pc EXCEPT ![t] = Idle]
    /\ mtx_' = FALSE
    /\ last' = [op |-> "load", key |-> "", ret |-> TRUE]
    /\ UNCHANGED <<map_, now, wake, stop_, disk, hist, done, life, srv>>

\* ------------------------------------------------------------ cleaner
\* Storage::cleaner: while (!stop_) finds stop_ clear once the sleep is over
CleanerCheck ==
    /\ pc[Cleaner] = Idle
    /\ ~stop_
    /\ now >= wake
    /\ pc' = [pc EXCEPT ![Cleaner] = [op |-> "checked"]]
    /\ UNCHANGED <<map_, mtx_, now, wake, stop_, disk, last, hist, done, life, srv>>

\* ... { lock_guard ...
CleanerLock ==
    /\ pc[Cleaner].op = "checked"
    /\ CanLock
    /\ mtx_' = TRUE
    /\ pc' = [pc EXCEPT ![Cleaner] = [op |-> "sweep"]]
    /\ last' = NoCall
    /\ UNCHANGED <<map_, now, wake, stop_, disk, hist, done, life, srv>>

\* ... the sweep, the release of the lock and sleep_for(seconds(1)) }
CleanerSweep ==
    /\ pc[Cleaner].op = "sweep"
    /\ map_' \in Written(Cleaner, Sweep(map_, now))
    /\ mtx_' = FALSE
    /\ wake' = now + TicksPerSec
    /\ pc' = [pc EXCEPT ![Cleaner] = Idle]
    /\ UNCHANGED <<now, stop_, disk, last, hist, done, life, srv>>

\* the cleaner finds stop_ set after its sleep and returns
CleanerExit ==
    /\ pc[Cleaner] = Idle
    /\ stop_
    /\ now >= wake
    /\ pc' = [pc EXCEPT ![Cleaner] = Exited]
    /\ UNCHANGED <<map_, mtx_, now, wake, stop_, disk, last, hist, done, life, srv>>

\* Storage::~Storage: stop_ = true, then cleaner_thread_.join() blocks
Destroy ==
    /\ life = "alive"
    /\ srv = SrvInit
    /\ \A t \in (DOMAIN pc) \ {Cleaner} : pc[t] = Idle
    /\ stop_' = TRUE
    /\ life' = "joining"
    /\ UNCHANGED <<map_, mtx_, pc, now, wake, disk, last, hist, done, srv>>

\* a variant of JoinDone: the thread was detached, nothing is waited for
JoinDoneDetached == TRUE

\* cleaner_thread_.join() returns once Storage::cleaner has returned
JoinDone == pc[Cleaner] = Exited

\* the end of Storage::~Storage: join() has returned, the members are destroyed
Joined ==
    /\ life = "joining"
    /\ JoinDone
    /\ life' = "destroyed"
    /\ UNCHANGED <<map_, mtx_, pc, now, wake, stop_, disk, last, hist, done, srv>>

\* steady_clock advances
Tick ==
    /\ now < MaxTime
    /\ now' = now + 1
    /\ UNCHANGED <<map_, mtx_, pc, wake, stop_, disk, last, hist, done, life, srv>>

\* the calls a client can make on the keys K; the persistence calls on request
Calls(K, ops) ==
    {Call("set", k, v, NoTTL) : k \in K, v \in Values}
    \cup {Call("set_ttl", k, v, ttl) : k \in K, v \in Values, ttl \in TTLs}
    \cup {Call(op, k, Absent, NoTTL) : op \in {"get", "exists", "del"}, k \in K}
    \cup {Call("expire", k, Absent, ttl) : k \in K, ttl \in TTLs}
    \cup {Call(op, "", Absent, NoTTL) : op \in ops}

\* ------------------------------------------------- Spec: the Storage API
\* One command stream (Server::handle_client) and the cleaner on one Storage.
Next ==
    \/ \E t \in Clients : \E c \in Calls(Keys, {"size", "dump"}) : Lock(t, c)
    \/ \E t \in Clients : Set(t)
    \/ \E t \in Clients : SetTtl(t)
    \/ \E t \in Clients : Get(t)
    \/ \E t \in Clients : Exists(t)
    \/ \E t \in Clients : Del(t)
    \/ \E t \in Clients : Size(t)
    \/ \E t \in Clients : Expire(t)
    \/ \E t \in Clients : Dump(t)
    \/ CleanerCheck
    \/ CleanerLock
    \/ CleanerSweep
    \/ CleanerExit
    \/ Destroy
    \/ Joined
    \/ Tick

Spec == Init /\ [][Next]_vars

\* ------------------------------------- SpecFile: the API with persistence
\* Two caller threads and the cleaner on one Storage, every method included.
InitFile ==
    /\ map_ = EmptyMap
    /\ mtx_ = FALSE
    /\ pc = [t \in FileClients \cup {Cleaner} |-> Idle]
    /\ now = 0
    /\ wake = 0
    /\ stop_ = FALSE
    /\ disk = NoFile
    /\ last = NoCall
    /\ hist = [k \in Keys |-> None]
    /\ done = [t \in FileClients |-> 0]
    /\ life = "alive"
    /\ srv = SrvInit

NextFile ==
    \/ \E t \in FileClients :
          \E c \in Calls(FileKeys, {"size", "dump", "save", "load"}) : Lock(t, c)
    \/ \E t \in FileClients : Set(t)
    \/ \E t \in FileClients : SetTtl(t)
    \/ \E t \in FileClients : Get(t)
    \/ \E t \in FileClients : Exists(t)
    \/ \E t \in FileClients : Del(t)
    \/ \E t \in FileClients : Size(t)
    \/ \E t \in FileClients : Expire(t)
    \/ \E t \in FileClients : Dump(t)
    \/ \E t \in FileClients : SaveToFile(t)
    \/ \E t \in FileClients : LoadOpen(t)
    \/ \E t \in FileClients : LoadRecord(t)
    \/ \E t \in FileClients : LoadReturn(t)
    \/ CleanerCheck
    \/ CleanerLock
    \/ CleanerSweep
    \/ CleanerExit
    \/ Destroy
    \/ Joined
    \/ Tick

SpecFile == InitFile /\ [][NextFile]_vars

\* --------------------------------- SpecLoad: loadFromFile on a given file
\* The file is not the Storage's own: its records hold a supported value
\* without or with a remaining time, a value of a json type the is_* chain
\* does not know (null), or a ttl_remaining of the wrong json type (a string);
\* or it is not JSON at all.
LoadRecords ==
    {[value |-> ToJson([tag |-> "int", v |-> 1]), hasExpiry |-> FALSE,
      ttl_remaining |-> Null],
     [value |-> [type |-> "null", v |-> 0], hasExpiry |-> FALSE,
      ttl_remaining |-> Null],
     [value |-> ToJson([tag |-> "int", v |-> 1]), hasExpiry |-> TRUE,
      ttl_remaining |-> [type |-> "string", v |-> 0]],
     [value |-> ToJson([tag |-> "string", v |-> 2]), hasExpiry |-> TRUE,
      ttl_remaining |-> JsonInt(1)]}

LoadFiles ==
    {[exists |-> TRUE, valid |-> FALSE, js |-> EmptyMap]}
    \cup {[exists |-> TRUE, valid |-> TRUE, js |-> f] :
             f \in UNION {[K -> LoadRecords] : K \in SUBSET Keys}}

LoadCalls ==
    {Call("set", k, v, NoTTL) : k \in Keys, v \in Values}
    \cup {Call("load", "", Absent, NoTTL)}

InitLoad ==
    /\ map_ = EmptyMap
    /\ mtx_ = FALSE
    /\ pc = [t \in Clients \cup {Cleaner} |-> Idle]
    /\ now = 0
    /\ wake = 0
    /\ stop_ = FALSE
    /\ disk \in LoadFiles
    /\ last = NoCall
    /\ hist = [k \in Keys |-> None]
    /\ done = [t \in Clients |-> 0]
    /\ life = "alive"
    /\ srv = SrvInit

NextLoad ==
    \/ \E t \in Clients : \E c \in LoadCalls : Lock(t, c)
    \/ \E t \in Clients : Set(t)
    \/ \E t \in Clients : LoadOpen(t)
    \/ \E t \in Clients : LoadRecord(t)
    \/ \E t \in Clients : LoadReturn(t)
    \/ CleanerCheck
    \/ CleanerLock
    \/ CleanerSweep
    \/ Tick

SpecLoad == InitLoad /\ [][NextLoad]_vars

\* ------------------------------ SpecReaper: the cleaner, fairly scheduled
\* One caller on one key; the clock advances, the cleaner thread is scheduled
\* and gets the mutex when it is free again and again, and ~Storage runs on.
\* a caller that holds the mutex runs its method to the end
Body ==
    \/ \E t \in Clients : Set(t)
    \/ \E t \in Clients : SetTtl(t)
    \/ \E t \in Clients : Get(t)
    \/ \E t \in Clients : Exists(t)
    \/ \E t \in Clients : Del(t)
    \/ \E t \in Clients : Size(t)
    \/ \E t \in Clients : Expire(t)

NextReaper ==
    \/ \E t \in Clients : \E c \in Calls(FileKeys, {"size"}) : Lock(t, c)
    \/ Body
    \/ CleanerCheck
    \/ CleanerLock
    \/ CleanerSweep
    \/ CleanerExit
    \/ Destroy
    \/ Joined
    \/ Tick

SpecReaper ==
    /\ Init
    /\ [][NextReaper]_vars
    /\ WF_vars(Tick)
    /\ WF_vars(Body)
    /\ WF_vars(CleanerCheck)
    /\ SF_vars(CleanerLock)
    /\ WF_vars(CleanerSweep)
    /\ WF_vars(CleanerExit)
    /\ WF_vars(Joined)

\* ------------------------------------------- SpecConc: test_concurrency
\* Writer thread i sets key i*N + j to i*N + j for j < N while reader thread i
\* gets the same keys; the test then joins them and asserts size().
LoopN == 2
Writers == {"w0", "w1"}
Readers == {"r0", "r1"}
ThreadIndex == [w0 |-> 0, w1 |-> 1, r0 |-> 0, r1 |-> 1]
ConcKey(t, j) == ThreadIndex[t] * LoopN + j
ConcKeys == {ConcKey(t, j) : t \in Writers, j \in 0..(LoopN - 1)}
ConcValue(k) == [tag |-> "int", v |-> k]

InitConc ==
    /\ map_ = EmptyMap
    /\ mtx_ = FALSE
    /\ pc = [t \in Writers \cup Readers \cup {Cleaner} |-> Idle]
    /\ now = 0
    /\ wake = 0
    /\ stop_ = FALSE
    /\ disk = NoFile
    /\ last = NoCall
    /\ hist = [k \in ConcKeys |-> None]
    /\ done = [t \in Writers \cup Readers |-> 0]
    /\ life = "alive"
    /\ srv = SrvInit

\* the next iteration of a thread's loop enters store.set or store.get
ConcLock(t) ==
    /\ pc[t] = Idle
    /\ done[t] < LoopN
    /\ CanLock
    /\ mtx_' = TRUE
    /\ pc' = [pc EXCEPT ![t] =
                 IF t \in Writers
                 THEN Call("set", ConcKey(t, done[t]),
                           ConcValue(ConcKey(t, done[t])), NoTTL)
                 ELSE Call("get", ConcKey(t, done[t]), Absent, NoTTL)]
    /\ done' = [done EXCEPT ![t] = @ + 1]
    /\ last' = NoCall
    /\ UNCHANGED <<map_, now, wake, stop_, disk, hist, life, srv>>

\* thread.join() has returned for every thread
AllJoined == \A t \in Writers \cup Readers : done[t] = LoopN /\ pc[t] = Idle

NextConc ==
    \/ \E t \in Writers \cup Readers : ConcLock(t)
    \/ \E t \in Writers : Set(t)
    \/ \E t \in Readers : Get(t)
    \/ CleanerCheck
    \/ CleanerLock
    \/ CleanerSweep
    \/ Tick

SpecConc == InitConc /\ [][NextConc]_vars

\* ------------------------------------------- SpecServer: Server sessions
\* the values client c sends in its SET commands
ConnValue(c) == [tag |-> "int", v |-> IF c = "a" THEN 1 ELSE 2]

\* the state of the Storage variables while the server is modelled
StorageVars == <<map_, mtx_, pc, now, wake, stop_, disk, last, hist, done, life>>

\* accept(): the lowest descriptor that is not open
LowestFree ==
    LET used == {srv.sess[c].fd : c \in {d \in Conns : srv.sess[d].open}}
    IN CHOOSE f \in Fds \ used : \A g \in Fds \ used : f <= g

\* accept_clients: a connection is accepted and handle_client starts in its
\* own thread: Storage client_store (the cleaner thread is launched)
Accept(c) ==
    /\ srv.up
    /\ srv.sess[c].state = "none"
    /\ srv' = [srv EXCEPT !.sess[c] =
                  [NoSession EXCEPT !.state = "created", !.fd = LowestFree,
                                    !.open = TRUE, !.reaper = "running"]]
    /\ UNCHANGED StorageVars

\* an exception nobody catches leaves a thread's function: std::terminate
\* ends the process, and with it every session
Terminate(why, by) ==
    srv' = [srv EXCEPT !.up = FALSE, !.fault = [why |-> why, by |-> by],
               !.sess = [c \in Conns |->
                           IF srv.sess[c].state \in {"created", "active", "closing"}
                           THEN [srv.sess[c] EXCEPT !.state = "killed"]
                           ELSE srv.sess[c]]]

\* loadFromFile as a whole, with `now` = 0: whether it throws, and the map
\* it leaves when it returns true
FileThrows(d) == ~d.valid \/ \E k \in DOMAIN d.js : RecordThrows(d.js[k])
FileLoad(d) == [k \in DOMAIN d.js |-> LoadEntry(d.js[k], 0)]

\* a variant of LoadResult: the map is cleared before the file is opened
LoadResultClearFirst(d, m) == IF ~d.exists THEN EmptyMap ELSE FileLoad(d)

\* the map loadFromFile leaves in a store that held m: untouched when the
\* file does not open
LoadResult(d, m) == IF ~d.exists THEN m ELSE FileLoad(d)

\* handle_client: auto-load of data/client_<fd>/autosave.json; the return
\* value is dropped, an exception is not caught
AutoLoad(c) ==
    /\ srv.up
    /\ srv.sess[c].state = "created"
    /\ LET d == srv.file[srv.sess[c].fd]
       IN IF d.exists /\ FileThrows(d)
          THEN Terminate("load", c)
          ELSE srv' = [srv EXCEPT !.sess[c].state = "active",
                                  !.sess[c].store = LoadResult(d, @)]
    /\ UNCHANGED StorageVars

\* the TTL token of a SET or EXPIRE command: none, "0", "1", or a word that
\* is no number
TtlTokens == {"", "0", "1", "abc"}

\* std::stoi(token): throws std::invalid_argument unless the token is a number
StoiThrows(tok) == tok \notin {"0", "1"}
Stoi(tok) == IF tok = "0" THEN 0 ELSE 1

\* the file names of a LOAD command; only autosave.json is ever written
FileNames == {"autosave.json", "other.json"}

\* CommandParser::execute, SET <key> <value> [<ttl>]: std::stoi(tokens[3])
\* throws std::invalid_argument on a word that is no number
CmdSet(c, k, tok) ==
    /\ srv.up
    /\ srv.sess[c].state = "active"
    /\ IF tok # "" /\ StoiThrows(tok)
       THEN Terminate("stoi", c)
       ELSE srv' = [srv EXCEPT
                      !.sess[c].store =
                          Put(@, k, IF tok = ""
                                    THEN Entry(ConnValue(c), 0, FALSE)
                                    ELSE Entry(ConnValue(c), Deadline(0, Stoi(tok)), TRUE)),
                      !.sess[c].cmd = "SET",
                      !.sess[c].resp = "OK",
                      !.sess[c].seen = Absent]
    /\ UNCHANGED StorageVars

\* CommandParser::execute, EXPIRE <key> <ttl>: store.exists(key), then
\* std::stoi inside try/catch, ttl <= 0 refused, then store.expire(key, ttl)
CmdExpire(c, k, tok) ==
    /\ srv.up
    /\ srv.sess[c].state = "active"
    /\ LET m == srv.sess[c].store
           ok == /\ tok # ""
                 /\ ExistsRet(m, k, 0)
                 /\ ~StoiThrows(tok)
                 /\ Stoi(tok) > 0
       IN srv' = [srv EXCEPT
                    !.sess[c].store =
                        IF tok = "" THEN m
                        ELSE IF ok THEN ExpireMap(LazyErase(m, k, 0), k, 0, Stoi(tok))
                        ELSE LazyErase(m, k, 0),
                    !.sess[c].cmd = "EXPIRE",
                    !.sess[c].resp = IF tok = "" THEN "error"
                                     ELSE IF ~ExistsRet(m, k, 0) THEN "nil"
                                     ELSE IF ok THEN "integer"
                                     ELSE "error",
                    !.sess[c].seen = Absent]
    /\ UNCHANGED StorageVars

\* CommandParser::execute, LOAD <filename>: store.loadFromFile of
\* data/client_<fd>/<filename>; an exception is not caught
CmdLoad(c, name) ==
    /\ srv.up
    /\ srv.sess[c].state = "active"
    /\ LET d == IF name = "autosave.json" THEN srv.file[srv.sess[c].fd] ELSE NoFile
       IN IF d.exists /\ FileThrows(d)
          THEN Terminate("cmdload", c)
          ELSE srv' = [srv EXCEPT
                         !.sess[c].store = LoadResult(d, @),
                         !.sess[c].cmd = IF name = "autosave.json"
                                         THEN "LOAD autosave.json"
                                         ELSE "LOAD other.json",
                         !.sess[c].resp = IF d.exists THEN "load_ok" ELSE "load_error",
                         !.sess[c].loaded = @ \/ d.exists,
                         !.sess[c].seen = Absent]
    /\ UNCHANGED StorageVars

\* CommandParser::execute, GET <key>: store.exists(key), then store.get(key)
CmdGet(c, k) ==
    /\ srv.up
    /\ srv.sess[c].state = "active"
    /\ srv' = [srv EXCEPT
                  !.sess[c].store = LazyErase(@, k, 0),
                  !.sess[c].seen = GetRet(srv.sess[c].store, k, 0),
                  !.sess[c].cmd = "GET",
                  !.sess[c].resp = IF ExistsRet(srv.sess[c].store, k, 0)
                                   THEN "value" ELSE "nil"]
    /\ UNCHANGED StorageVars

\* handle_client: recv() <= 0, or the line EXIT / QUIT: break
Exit(c) ==
    /\ srv.up
    /\ srv.sess[c].state = "active"
    /\ srv' = [srv EXCEPT !.sess[c].state = "closing"]
    /\ UNCHANGED StorageVars

\* handle_client: client_store.saveToFile(autosavePath); a failure is logged
AutoSave(c) ==
    /\ srv.up
    /\ srv.sess[c].state = "closing"
    /\ ~srv.sess[c].saved
    /\ \E opened \in BOOLEAN :
          srv' = [srv EXCEPT
                    !.sess[c].saved = TRUE,
                    !.file[srv.sess[c].fd] =
                        IF opened
                        THEN [exists |-> TRUE, valid |-> TRUE,
                              js |-> SaveJson(srv.sess[c].store, 0)]
                        ELSE @]
    /\ UNCHANGED StorageVars

\* a variant of CloseSock: the socket is closed before the autosave
CloseSockEarly(c) ==
    /\ srv.up
    /\ srv.sess[c].state = "closing"
    /\ srv.sess[c].open
    /\ srv' = [srv EXCEPT !.sess[c].open = FALSE]
    /\ UNCHANGED StorageVars

\* handle_client: close(client_sock)
CloseSock(c) ==
    /\ srv.up
    /\ srv.sess[c].state = "closing"
    /\ srv.sess[c].saved
    /\ srv.sess[c].open
    /\ srv' = [srv EXCEPT !.sess[c].open = FALSE]
    /\ UNCHANGED StorageVars

\* handle_client returns: ~Storage sets stop_ and joins the cleaner
StoreStop(c) ==
    /\ srv.up
    /\ srv.sess[c].state = "closing"
    /\ ~srv.sess[c].open
    /\ srv.sess[c].reaper = "running"
    /\ srv' = [srv EXCEPT !.sess[c].reaper = "stopping"]
    /\ UNCHANGED StorageVars

\* Storage::cleaner of the session's store: one sweep
ReaperSweep(c) ==
    /\ srv.up
    /\ srv.sess[c].reaper \in {"running", "stopping"}
    /\ srv.sess[c].store # Sweep(srv.sess[c].store, 0)
    /\ srv' = [srv EXCEPT !.sess[c].store = Sweep(@, 0)]
    /\ UNCHANGED StorageVars

\* Storage::cleaner of the session's store: the loop ends on stop_
ReaperExit(c) ==
    /\ srv.up
    /\ srv.sess[c].reaper = "stopping"
    /\ srv' = [srv EXCEPT !.sess[c].reaper = "exited"]
    /\ UNCHANGED StorageVars

\* ~Storage: join() has returned, the store is gone, the thread ends
SessionClosed(c) ==
    /\ srv.up
    /\ srv.sess[c].state = "closing"
    /\ srv.sess[c].reaper = "exited"
    /\ srv' = [srv EXCEPT !.sess[c].state = "closed"]
    /\ UNCHANGED StorageVars

\* the environment: an autosave file is damaged (a cut write, an editor)
Corrupt(f) ==
    /\ srv.up
    /\ srv.file[f].exists
    /\ srv.file[f].valid
    /\ srv' = [srv EXCEPT !.file[f].valid = FALSE]
    /\ UNCHANGED StorageVars

NextServer ==
    \/ \E c \in Conns : Accept(c)
    \/ \E c \in Conns : AutoLoad(c)
    \/ \E c \in Conns : \E k \in FileKeys : \E tok \in TtlTokens : CmdSet(c, k, tok)
    \/ \E c \in Conns : \E k \in FileKeys : CmdGet(c, k)
    \/ \E c \in Conns : \E k \in FileKeys : \E tok \in TtlTokens : CmdExpire(c, k, tok)
    \/ \E c \in Conns : \E name \in FileNames : CmdLoad(c, name)
    \/ \E c \in Conns : Exit(c)
    \/ \E c \in Conns : AutoSave(c)
    \/ \E c \in Conns : CloseSock(c)
    \/ \E c \in Conns : StoreStop(c)
    \/ \E c \in Conns : ReaperSweep(c)
    \/ \E c \in Conns : ReaperExit(c)
    \/ \E c \in Conns : SessionClosed(c)
    \/ \E f \in Fds : Corrupt(f)

SpecServer == Init /\ [][NextServer]_vars

\* =================================================================== claims
\* thread t returns from method op in this step
Returns(t, op) == pc[t].op = op /\ pc'[t] = Idle

Callers == (DOMAIN pc) \ {Cleaner}

\* C1: after set(k, v) (or an overwriting set(k, v2)) with no later write,
\* delete, load or expiry of k, get(k) returns exactly the value last set.
C1_SetThenGet ==
    [][\A t \in Callers :
          (/\ Returns(t, "get")
           /\ hist[pc[t].key].by = "set"
           /\ (hist[pc[t].key].exp = NoExp \/ now < hist[pc[t].key].exp))
          => last'.ret = hist[pc[t].key].value]_vars

\* a get has just returned the value of the set that last wrote its key
C1_Witness ==
    /\ last.op = "get"
    /\ hist[last.key].by = "set"
    /\ last.ret = hist[last.key].value

\* C2: get returns a value, exists returns true and dump includes a key only
\* if the key's entry has no expiry or the time is strictly before its expiry.
C2_DeadNeverObserved ==
    [][\A t \in Callers :
          /\ (Returns(t, "get") /\ last'.ret # Absent)
                => Alive(map_, pc[t].key, now)
          /\ (Returns(t, "exists") /\ last'.ret)
                => Alive(map_, pc[t].key, now)
          /\ Returns(t, "dump")
                => \A k \in DOMAIN last'.ret : Alive(map_, k, now)]_vars

\* dump has just returned without a key that is still physically in the map,
\* next to a key it did return
C2_Witness ==
    /\ last.op = "dump"
    /\ \E k \in DOMAIN map_ : k \notin DOMAIN last.ret
    /\ DOMAIN last.ret # {}

\* C3: size() equals the number of keys exists() would report, the number of
\* alive entries (stated as claimed; the code returns map_.size()).
C3_SizeCountsAlive ==
    [][\A t \in Callers :
          Returns(t, "size")
          => last'.ret = Cardinality({k \in DOMAIN map_ : Alive(map_, k, now)})]_vars

\* C4: after set(k, v, ttl) at time t with no later write to k, exists(k) at
\* time t' is true exactly when t' < t + ttl.
C4_TtlVisibility ==
    [][\A t \in Callers :
          (/\ Returns(t, "exists")
           /\ hist[pc[t].key].by = "set"
           /\ hist[pc[t].key].exp # NoExp)
          => last'.ret = (now < hist[pc[t].key].exp)]_vars

\* exists has just reported a key set with a TTL as visible
C4_Witness ==
    /\ last.op = "exists"
    /\ hist[last.key].by = "set"
    /\ hist[last.key].exp # NoExp
    /\ last.ret

\* C5: expire on a logically dead entry that is still in the map returns
\* false and leaves the key invisible (stated as claimed).
C5_ExpireDeadRefused ==
    [][\A t \in Callers :
          (Returns(t, "expire") /\ LogicallyDead(map_, pc[t].key, now))
          => /\ last'.ret = FALSE
             /\ ~ExistsRet(map_', pc[t].key, now)]_vars

\* C6: expire(k, ttl) on an alive key returns true, sets the entry's expiry to
\* now + ttl, leaves the value and every other key unchanged, and the key is
\* not visible once ttl seconds have elapsed.
C6_ExpireAlive ==
    [][\A t \in Callers :
          /\ (Returns(t, "expire") /\ Alive(map_, pc[t].key, now))
             => /\ last'.ret = TRUE
                /\ DOMAIN map_' = DOMAIN map_
                /\ map_'[pc[t].key] = [value |-> map_[pc[t].key].value,
                                       expiry |-> now + pc[t].ttl * TicksPerSec,
                                       hasExpiry |-> TRUE]
                /\ \A k \in (DOMAIN map_) \ {pc[t].key} : map_'[k] = map_[k]
          /\ (/\ Returns(t, "exists")
              /\ hist[pc[t].key].by = "expire"
              /\ now >= hist[pc[t].key].exp)
             => last'.ret = FALSE
          /\ (/\ Returns(t, "get")
              /\ hist[pc[t].key].by = "expire"
              /\ now >= hist[pc[t].key].exp)
             => last'.ret = Absent]_vars

\* expire has just returned true for a key, with another key in the map
C6_Witness ==
    /\ last.op = "expire"
    /\ last.ret = TRUE
    /\ hist[last.key].by = "expire"
    /\ last.key \in DOMAIN map_
    /\ map_[last.key].expiry = hist[last.key].exp
    /\ Cardinality(DOMAIN map_) = 2

\* C7 as claimed: del(k) returns true iff k was alive immediately before the
\* call, and after it exists(k) is false.
C7_DelTrueIffAlive ==
    [][\A t \in Callers :
          Returns(t, "del")
          => /\ last'.ret = Alive(map_, pc[t].key, now)
             /\ ~ExistsRet(map_', pc[t].key, now)]_vars

\* C7 as amended: del(k) returns true iff k had a physical entry immediately
\* before the call, alive or logically dead, and after it exists(k) is false.
C7_DelTrueIffPresent ==
    [][\A t \in Callers :
          Returns(t, "del")
          => /\ last'.ret = (pc[t].key \in DOMAIN map_)
             /\ ~ExistsRet(map_', pc[t].key, now)]_vars

\* del has just returned true and its key is gone
C7_Witness ==
    /\ last.op = "del"
    /\ last.ret = TRUE
    /\ last.key \notin DOMAIN map_

\* C8: on a key with no physical entry get returns absent, exists, del and
\* expire return false, and the map is left as it was.
C8_AbsentKey ==
    [][\A t \in Callers :
          (pc[t].op \in {"get", "exists", "del", "expire"}
             /\ pc'[t] = Idle /\ pc[t].key \notin DOMAIN map_)
          => /\ map_' = map_
             /\ Returns(t, "get") => last'.ret = Absent
             /\ Returns(t, "exists") => last'.ret = FALSE
             /\ Returns(t, "del") => last'.ret = FALSE
             /\ Returns(t, "expire") => last'.ret = FALSE]_vars

\* expire has just returned false: its key had no entry, and still has none
C8_Witness ==
    /\ last.op = "expire"
    /\ last.ret = FALSE
    /\ last.key \notin DOMAIN map_
    /\ DOMAIN map_ # {}

\* C9: once the writers of disjoint keys and the readers have all finished,
\* size() is the number of keys written and every key reads back its value.
C9_NoLostWrite ==
    AllJoined
    => /\ SizeRet(map_) = Cardinality(Writers) * LoopN
       /\ \A k \in ConcKeys : GetRet(map_, k, now) = ConcValue(k)

\* all writers and readers have finished
C9_Witness == AllJoined /\ DOMAIN map_ = ConcKeys

\* C10: at most one thread is inside a method of the Storage or a sweep, and
\* only while the mutex is held; in particular nobody else is inside while
\* loadFromFile is between its clear and the end of its loop.
C10_MutualExclusion ==
    /\ Cardinality({t \in DOMAIN pc : InCS(t)}) <= 1
    /\ \A t \in DOMAIN pc : InCS(t) => mtx_
    /\ \A t \in DOMAIN pc :
          pc[t].op = "load_fill" => \A u \in (DOMAIN pc) \ {t} : ~InCS(u)

\* loadFromFile has cleared the map and not yet put a record back, while the
\* cleaner's sleep is over
C10_Witness ==
    \E t \in Callers :
       /\ pc[t].op = "load_fill"
       /\ pc[t].todo # {}
       /\ map_ = EmptyMap
       /\ now >= wake
       /\ pc[Cleaner] = Idle

\* C18: set(k, v) without a TTL leaves an entry with no expiry, whatever k held
\* before; until the next del, set with TTL, expire or load of k the entry
\* stays in the map and get/exists report it, at every time and across sweeps.
C18_SetNoExpiry ==
    \A k \in DOMAIN hist :
       (hist[k].by = "set" /\ hist[k].exp = NoExp)
       => /\ k \in DOMAIN map_
          /\ ~map_[k].hasExpiry
          /\ ExistsRet(map_, k, now)
          /\ GetRet(map_, k, now) = hist[k].value

\* a key set without TTL is still there at the end of the clock, after the
\* cleaner has swept and a file has been saved
C18_Witness ==
    /\ now = MaxTime
    /\ wake > 0
    /\ disk.exists
    /\ \E k \in DOMAIN hist : hist[k].by = "set" /\ hist[k].exp = NoExp
    /\ \A t \in DOMAIN pc : ~InCS(t)

\* C19: del(k) removes k's physical entry, alive or dead, returns true exactly
\* when there was one, and leaves every other key's entry as it was.
C19_DelFrame ==
    [][\A t \in Callers :
          Returns(t, "del")
          => /\ DOMAIN map_' = (DOMAIN map_) \ {pc[t].key}
             /\ last'.ret = (DOMAIN map_' # DOMAIN map_)
             /\ \A j \in DOMAIN map_' : map_'[j] = map_[j]]_vars

\* del has just removed a key and a key carrying an expiry is left in the map
C19_Witness ==
    /\ last.op = "del"
    /\ last.ret = TRUE
    /\ \E j \in DOMAIN map_ : j # last.key /\ map_[j].hasExpiry

\* C20: get(k) and exists(k) erase k's entry exactly when they find it
\* logically dead, returning absent/false; otherwise the map is unchanged;
\* no other key is ever touched.
C20_LazyCleanupFrame ==
    [][\A t \in Callers :
          (Returns(t, "get") \/ Returns(t, "exists"))
          => /\ DOMAIN map_' =
                   (DOMAIN map_) \ (IF LogicallyDead(map_, pc[t].key, now)
                                    THEN {pc[t].key} ELSE {})
             /\ \A j \in DOMAIN map_' : map_'[j] = map_[j]
             /\ LogicallyDead(map_, pc[t].key, now)
                   => last'.ret = (IF pc[t].op = "get" THEN Absent ELSE FALSE)]_vars

\* exists has just returned false for a key whose set is on record, the entry
\* is gone and the cleaner has not run since the clock started
C20_Witness ==
    /\ last.op = "exists"
    /\ last.ret = FALSE
    /\ hist[last.key].by = "set"
    /\ last.key \notin DOMAIN map_
    /\ wake = 0
    /\ DOMAIN map_ # {}

\* C11: while the Storage is alive, an entry whose expiry has passed is
\* eventually erased (or rewritten) although nobody reads its key, provided
\* the cleaner's next wake-up lies within the clock's range.
C11_ReaperReclaims ==
    \A k \in Keys :
       (LogicallyDead(map_, k, now) /\ ~stop_ /\ wake <= MaxTime)
       ~> (~LogicallyDead(map_, k, now) \/ stop_)

\* a logically dead entry sits in the map while nobody is inside the Storage
\* and the cleaner is still asleep
C11_Witness ==
    /\ \E k \in Keys : LogicallyDead(map_, k, now)
    /\ ~stop_
    /\ pc[Cleaner] = Idle
    /\ now < wake
    /\ wake <= MaxTime
    /\ last.op = "set_ttl"

\* C12: ~Storage ends only after the cleaner has returned, nothing touches the
\* map afterwards, a stopped cleaner that is asleep only wakes to return, its
\* sleep never exceeds one interval, and ~Storage always comes to its end
\* (provided the wake-up lies within the clock's range).
C12_ReaperJoined ==
    /\ [](life = "destroyed" => pc[Cleaner] = Exited)
    /\ [](pc[Cleaner] = Idle => wake <= now + TicksPerSec)
    /\ [][/\ life = "destroyed" => UNCHANGED <<map_, mtx_, pc>>
          /\ (stop_ /\ pc[Cleaner] = Idle) => pc'[Cleaner] \in {Idle, Exited}
          /\ pc[Cleaner] = Exited => pc'[Cleaner] = Exited]_vars
    /\ (stop_ /\ pc[Cleaner] = Idle /\ wake <= MaxTime) ~> (life = "destroyed")

\* the Storage has been destroyed after a sweep that followed stop_
C12_Witness ==
    /\ life = "destroyed"
    /\ pc[Cleaner] = Exited
    /\ wake > 0
    /\ DOMAIN map_ # {}

\* C13: whenever nobody is inside the Storage, saving it and loading the
\* result at once into a fresh Storage gives the same alive keys, each with
\* its value and variant, no-expiry keys without expiry, and every expiry
\* within one second of the original.
C13_RoundTrip ==
    (\A t \in DOMAIN pc : ~InCS(t))
    => LET file == SaveJson(map_, now)
           S == [k \in DOMAIN file |-> LoadEntry(file[k], now)]
       IN /\ {k \in DOMAIN S : Alive(S, k, now)}
                = {k \in DOMAIN map_ : Alive(map_, k, now)}
          /\ \A k \in DOMAIN map_ :
                Alive(map_, k, now)
                => /\ k \in DOMAIN S
                   /\ S[k].value = map_[k].value
                   /\ S[k].hasExpiry = map_[k].hasExpiry
                   /\ S[k].hasExpiry
                         => /\ S[k].expiry - map_[k].expiry <= TicksPerSec
                            /\ map_[k].expiry - S[k].expiry <= TicksPerSec

\* the file is not what saveToFile writes: not JSON, or a record whose value
\* has an unsupported json type or whose ttl_remaining is ill-typed
Malformed(d) ==
    \/ ~d.valid
    \/ \E k \in DOMAIN d.js :
          \/ d.js[k].value.type
                \notin {"boolean", "number_integer", "number_float", "string"}
          \/ d.js[k].ttl_remaining.type \notin {"null", "number_integer"}

\* C14: a load of a malformed file reports failure (false or an exception)
\* and leaves the map either as it was before the call or empty.
C14_MalformedLoadFails ==
    [][\A t \in Callers :
          (/\ pc[t].op \in {"load", "load_fill"}
           /\ pc'[t] = Idle
           /\ disk.exists
           /\ Malformed(disk))
          => /\ last'.op = "load_threw" \/ last'.ret = FALSE
             /\ \/ map_' = EmptyMap
                \/ map_' = (IF pc[t].op = "load" THEN map_ ELSE pc[t].prior)]_vars

\* C15: a session that starts on a malformed autosave file becomes Active
\* with an empty store, and the process and the other sessions carry on.
C15_MalformedAutosaveNotFatal ==
    [][\A c \in Conns :
          (/\ srv.sess[c].state = "created"
           /\ srv'.sess[c].state # "created"
           /\ srv'.up \/ srv'.fault.by = c
           /\ srv.file[srv.sess[c].fd].exists
           /\ Malformed(srv.file[srv.sess[c].fd]))
          => /\ srv'.up
             /\ srv'.sess[c].state = "active"
             /\ srv'.sess[c].store = EmptyMap
             /\ \A d \in Conns \ {c} : srv'.sess[d] = srv.sess[d]]_vars

\* C16: whatever the GET of a client that has loaded no file itself returns
\* is a value this client has set.
C16_NoLeakBetweenClients ==
    \A c \in Conns :
       (srv.sess[c].seen # Absent /\ ~srv.sess[c].loaded)
       => srv.sess[c].seen = ConnValue(c)

\* C17: a session's state moves only none -> created -> active -> closing ->
\* closed; its store changes only by the auto-load, by commands while it is
\* active and by sweeps before it is closed; the final save comes before the
\* cleaner is stopped; a closed session never changes again.
C17_SessionLifecycle ==
    [][\A c \in Conns :
          LET s == srv.sess[c]
              n == srv'.sess[c]
          IN /\ n.state # s.state
                  => <<s.state, n.state>> \in
                        {<<"none", "created">>, <<"created", "active">>,
                         <<"active", "closing">>, <<"closing", "closed">>}
             /\ s.state = "closed" => n = s
             /\ (n.resp # s.resp \/ n.seen # s.seen) => s.state = "active"
             /\ (s.reaper = "running" /\ n.reaper = "stopping") => s.saved
             /\ n.saved # s.saved => s.state = "closing"]_vars

\* C21: dump() returns exactly the pairs of the entries alive at the one
\* instant of the call, and leaves the map as it is, dead entries included.
C21_DumpSnapshot ==
    [][\A t \in Callers :
          Returns(t, "dump")
          => /\ DOMAIN last'.ret = {k \in DOMAIN map_ : Alive(map_, k, now)}
             /\ \A k \in DOMAIN last'.ret : last'.ret[k] = map_[k].value
             /\ map_' = map_]_vars

\* dump has just returned a key with a running TTL and skipped a dead entry,
\* which is still in the map
C21_Witness ==
    /\ last.op = "dump"
    /\ \E k \in DOMAIN map_ : LogicallyDead(map_, k, now) /\ k \notin DOMAIN last.ret
    /\ \E j \in DOMAIN last.ret : map_[j].hasExpiry /\ Alive(map_, j, now)

\* C22: a sweep erases exactly the entries whose expiry is at or before its
\* instant; every other entry keeps its value and expiry, and a map without
\* dead entries is left unchanged.
C22_SweepFrame ==
    [][(pc[Cleaner].op = "sweep" /\ pc'[Cleaner] = Idle)
          => /\ DOMAIN map_' = {k \in DOMAIN map_ : ~LogicallyDead(map_, k, now)}
             /\ \A j \in DOMAIN map_' : map_'[j] = map_[j]
             /\ (\A k \in DOMAIN map_ : ~LogicallyDead(map_, k, now))
                   => map_' = map_]_vars

\* the cleaner has just finished a sweep at the instant a key set with a TTL
\* expired: that key is gone, a key with a later expiry is still there
C22_Witness ==
    /\ pc[Cleaner] = Idle
    /\ wake = now + TicksPerSec
    /\ last = NoCall
    /\ \E k \in Keys : /\ hist[k].by = "set"
                       /\ hist[k].exp = now
                       /\ k \notin DOMAIN map_
    /\ \E j \in DOMAIN map_ : map_[j].hasExpiry /\ Alive(map_, j, now)

\* C23: a get(k) that follows a set, expire or load of k (in the order the
\* lock was taken) returns that latest value while the time is before the
\* expiry and absent from the expiry instant on, whoever of the get and the
\* cleaner comes first; and whoever holds the mutex can take its next step.
C23_LastWriterWins ==
    /\ [][\A t \in Callers :
             (Returns(t, "get") /\ hist[pc[t].key].by \in {"set", "expire", "load"})
             => last'.ret = (IF \/ hist[pc[t].key].exp = NoExp
                                \/ now < hist[pc[t].key].exp
                             THEN hist[pc[t].key].value
                             ELSE Absent)]_vars
    /\ [](mtx_ => \E t \in DOMAIN pc : InCS(t))
    /\ [](\A t \in Callers :
             InCS(t) => ENABLED (\/ Set(t) \/ SetTtl(t) \/ Get(t) \/ Exists(t)
                                 \/ Del(t) \/ Size(t) \/ Expire(t) \/ Dump(t)
                                 \/ SaveToFile(t) \/ LoadOpen(t)
                                 \/ LoadRecord(t) \/ LoadReturn(t)))
    /\ [](InCS(Cleaner) => ENABLED CleanerSweep)

\* a get has just returned absent at the very instant its key expired and
\* erased the entry, while the cleaner, its sleep over, waits for the mutex
C23_Witness ==
    /\ last.op = "get"
    /\ last.ret = Absent
    /\ hist[last.key].by = "set"
    /\ hist[last.key].exp = now
    /\ now > 0
    /\ last.key \notin DOMAIN map_
    /\ pc[Cleaner].op = "checked"

\* C24: a save never changes the map; when the file cannot be opened it
\* returns false and the file stays as it was; otherwise the file holds one
\* record for exactly each entry alive at the instant of the call, with the
\* entry's value, hasExpiry, and null or the remaining whole seconds.
C24_SaveRecords ==
    [][\A t \in Callers :
          Returns(t, "save")
          => /\ map_' = map_
             /\ ~last'.ret => disk' = disk
             /\ last'.ret
                   => /\ disk'.exists
                      /\ DOMAIN disk'.js = {k \in DOMAIN map_ : Alive(map_, k, now)}
                      /\ \A k \in DOMAIN disk'.js :
                            /\ FromJson(disk'.js[k].value) = map_[k].value
                            /\ disk'.js[k].hasExpiry = map_[k].hasExpiry
                            /\ disk'.js[k].ttl_remaining =
                                  (IF map_[k].hasExpiry
                                   THEN [type |-> "number_integer",
                                         v |-> (map_[k].expiry - now) \div TicksPerSec]
                                   ELSE [type |-> "null", v |-> 0])]_vars

\* a save has just written remaining 0 for an entry that has less than one
\* second left
C24_Witness ==
    /\ last.op = "save"
    /\ last.ret = TRUE
    /\ \E k \in DOMAIN disk.js :
          /\ disk.js[k].hasExpiry
          /\ disk.js[k].ttl_remaining.v = 0
          /\ k \in DOMAIN map_
          /\ map_[k].expiry > now

\* C25: when a load returns true, the map's keys are exactly the keys of the
\* file, whatever the map held before, each entry has the value and hasExpiry
\* of its record, and each TTL entry expires at the load's instant plus its
\* recorded remaining seconds.
C25_LoadReplaces ==
    [][\A t \in Callers :
          (pc[t].op = "load_fill" /\ pc'[t] = Idle /\ last'.op = "load" /\ last'.ret)
          => /\ DOMAIN map_' = DOMAIN pc[t].js
             /\ \A k \in DOMAIN pc[t].js :
                   /\ pc[t].js[k].value.type \in {"number_integer", "string"}
                         => ToJson(map_'[k].value) = pc[t].js[k].value
                   /\ map_'[k].hasExpiry = pc[t].js[k].hasExpiry
                   /\ (pc[t].js[k].hasExpiry
                       /\ pc[t].js[k].ttl_remaining.type = "number_integer")
                         => map_'[k].expiry
                               = pc[t].tnow
                                 + pc[t].js[k].ttl_remaining.v * TicksPerSec]_vars

\* a load is about to return true: the map held a key the file does not have,
\* and now holds exactly the file's key, a TTL entry
C25_Witness ==
    \E t \in Callers :
       /\ pc[t].op = "load_fill"
       /\ pc[t].todo = {}
       /\ (DOMAIN pc[t].prior) \ (DOMAIN pc[t].js) # {}
       /\ DOMAIN map_ = DOMAIN pc[t].js
       /\ \E k \in DOMAIN map_ : map_[k].hasExpiry /\ map_[k].expiry > pc[t].tnow

\* C26: a session that starts without an autosave file becomes Active with an
\* empty store, and a LOAD command naming a file that does not exist answers
\* with the load error and leaves the session's store and state as they were.
C26_MissingFileKeepsStore ==
    [][\A c \in Conns :
          LET s == srv.sess[c]
              n == srv'.sess[c]
          IN /\ (/\ s.state = "created"
                 /\ n.state # "created"
                 /\ ~srv.file[s.fd].exists
                 /\ srv'.up \/ srv'.fault.by = c)
                => /\ srv'.up
                   /\ n.state = "active"
                   /\ n.store = EmptyMap
             /\ (/\ s.state = "active"
                 /\ n.cmd \in {"LOAD autosave.json", "LOAD other.json"}
                 /\ (n.cmd # s.cmd \/ n.resp # s.resp)
                 /\ (n.cmd = "LOAD autosave.json" => ~srv.file[s.fd].exists))
                => /\ srv'.up
                   /\ n.resp = "load_error"
                   /\ n.store = s.store
                   /\ n.state = "active"]_vars

\* a session that started without an autosave file still holds the key it
\* set after a LOAD of a file that does not exist
C26_Witness ==
    \E c \in Conns :
       /\ srv.sess[c].state = "active"
       /\ srv.sess[c].cmd = "LOAD other.json"
       /\ srv.sess[c].resp = "load_error"
       /\ ~srv.file[srv.sess[c].fd].exists
       /\ DOMAIN srv.sess[c].store # {}

\* a session that may still touch its directory: it has not done its autosave
UsesFiles(c) ==
    \/ srv.sess[c].state \in {"created", "active"}
    \/ srv.sess[c].state = "closing" /\ ~srv.sess[c].saved

\* C27: a session's socket stays open until its autosave is done, and two
\* sessions whose sockets are open, or that may still touch their files,
\* never have the same descriptor.
C27_DirectoryNotShared ==
    /\ \A c \in Conns : UsesFiles(c) => srv.sess[c].open
    /\ \A c \in Conns : \A d \in Conns \ {c} :
          (srv.sess[c].open /\ srv.sess[d].open)
          => srv.sess[c].fd # srv.sess[d].fd
    /\ \A c \in Conns : \A d \in Conns \ {c} :
          (UsesFiles(c) /\ UsesFiles(d))
          => srv.sess[c].fd # srv.sess[d].fd

\* a session works on the descriptor of a session that has done its autosave
\* and closed its socket, but whose store is not yet destroyed
C27_Witness ==
    \E c \in Conns : \E d \in Conns \ {c} :
       /\ srv.sess[c].state = "closing"
       /\ srv.sess[c].saved
       /\ ~srv.sess[c].open
       /\ srv.sess[d].state = "active"
       /\ srv.sess[d].fd = srv.sess[c].fd

\* C29: whatever an Active session's client sends, the server stays up and
\* the session stays Active or, on EXIT/QUIT or a disconnect, goes to Closing;
\* a SET or EXPIRE gets one response.
C29_CommandsKeepSession ==
    [][\A c \in Conns :
          LET s == srv.sess[c]
              n == srv'.sess[c]
          IN (s.state = "active" /\ (srv'.up \/ srv'.fault.by = c))
             => /\ srv'.up
                /\ n.state \in {"active", "closing"}
                /\ n.cmd \in {"SET", "EXPIRE"}
                      => n.resp \in {"OK", "nil", "integer", "error"}]_vars

\* C28: a get that returns absent or an exists that returns false leaves its
\* key out of the map; a key that is not in the map enters it only by a set
\* of that key or by a load; and while it is not in the map every get and
\* exists on it reports absent, whatever expire calls, sweeps and ticks occur.
C28_AbsenceStable ==
    [][/\ \A t \in Callers :
             /\ (Returns(t, "get") /\ last'.ret = Absent)
                   => pc[t].key \notin DOMAIN map_'
             /\ (Returns(t, "exists") /\ ~last'.ret)
                   => pc[t].key \notin DOMAIN map_'
             /\ (Returns(t, "get") /\ pc[t].key \notin DOMAIN map_)
                   => last'.ret = Absent
             /\ (Returns(t, "exists") /\ pc[t].key \notin DOMAIN map_)
                   => ~last'.ret
       /\ \A k \in Keys :
             (k \notin DOMAIN map_ /\ k \in DOMAIN map_')
             => \E t \in Callers :
                   /\ pc'[t] # pc[t]
                   /\ \/ pc[t].op \in {"set", "set_ttl"} /\ pc[t].key = k
                      \/ pc[t].op = "load_fill"]_vars

\* an expire has just been refused on a key that was set with a TTL, has
\* expired and is no longer in the map
C28_Witness ==
    /\ last.op = "expire"
    /\ last.ret = FALSE
    /\ hist[last.key].by = "set"
    /\ hist[last.key].exp <= now
    /\ last.key \notin DOMAIN map_
====
